---- MODULE Spec2Model ----
(***************************************************************************)
(* Changelog generator: the PR-ingestion pipeline of the two changelog     *)
(* endpoints (app/api/generate-changelog and generate-changelog-auth) and  *)
(* the two paginated GitHub fetchers they call (fetchGitHubPRs and         *)
(* fetchGitHubPRsAuthenticated).                                           *)
(*                                                                         *)
(* One behaviour is one request.  Every await of the handler and of the    *)
(* fetcher is a step boundary: the code between two awaits is one action.  *)
(* Time is the number of milliseconds since the fetcher took startTime.    *)
(***************************************************************************)
EXTENDS Integers, Sequences, FiniteSets, TLC

\* ---------------------------------------------------------------- constants

\* per_page=100 of the search URL, and the "=== 100" full-page test
PER_PAGE == 100

\* while (hasMore && page <= 10)
MAX_PAGES == 10

\* const TIMEOUT_MS = 30000
TIMEOUT_MS == 30000

\* setTimeout(() => controller.abort(), 10000)
REQUEST_TIMEOUT_MS == 10000

\* if (totalCount > 200) ... prSummaries.slice(0, 200)
MAX_PROMPT_PRS == 200

\* ------------------------------------------------------------- input domains

\* the largest total_count the search API reports in the model
MaxTotalCount == 1500

\* null / undefined / a missing header or number field: a number outside the
\* range of every field (a missing string field is the empty string)
NoValue == 0 - 1000000

\* the reset time "unknown" of the rate-limit message
Unknown == 0 - 2000000

\* the Invalid Date that new Date() gives for a string it cannot parse
InvalidDate == 0 - 3000000

\* the two routes
Endpoints == {"anon", "auth"}

\* repository strings of the request body, as sequences of characters
Repositories ==
  { <<>>, <<"o">>, <<"o", "/">>, <<"o", "/", "r">>, <<"o", "/", "r", "/", "x">> }

\* date fields of the request body; a date string is the day number it
\* parses to, or InvalidDate
DateConfigs ==
  { [dateMode |-> "days",  days |-> 7,       startDate |-> NoValue, endDate |-> NoValue],
    [dateMode |-> "days",  days |-> NoValue, startDate |-> NoValue, endDate |-> NoValue],
    [dateMode |-> "range", days |-> NoValue, startDate |-> 10,      endDate |-> 20],
    [dateMode |-> "range", days |-> NoValue, startDate |-> 20,      endDate |-> 10],
    [dateMode |-> "range", days |-> NoValue, startDate |-> InvalidDate, endDate |-> 20],
    [dateMode |-> "other", days |-> 7,       startDate |-> 10,      endDate |-> 20] }

\* the identifier field of the anonymous request body
Identifiers == {"", "fp1"}

\* the day number of new Date() when the request is handled
Today == 1000

\* what the rate limiter service answers: success and the reset instant
LimitAnswers == { [success |-> TRUE, reset |-> 61], [success |-> FALSE, reset |-> 61] }

\* HTTP statuses GitHub answers a page request with
Statuses == {200, 401, 403, 404, 422, 500, 503}

\* X-RateLimit-Remaining and X-RateLimit-Reset of a 403 response
RemainingHeaders == {NoValue, 0, 59}
ResetHeaders == {NoValue, 1700000000}

\* items per page the search API serves, and the total_count it reports
ItemCounts == {0, 50, PER_PAGE}
TotalCounts == {NoValue, 0, 150, MaxTotalCount}

\* milliseconds until fetch() settles; beyond REQUEST_TIMEOUT_MS the abort
\* timer fires first
WaitTimes == {2000, 9000, 15000}

\* milliseconds response.json() takes to read the body
BodyTimes == {0, 21000}

\* ------------------------------------------------------------------ state

VARIABLES
  endpoint,          \* which route handles the request
  req,               \* the parsed request body
  pc,                \* where the handler is suspended
  session,           \* what requireAuth() returned: the user id
  ratelimit,         \* what unkey.limit() answered
  accessToken,       \* what getGitHubToken() returned ("" for null)
  calls,             \* the collaborators called so far, in call order
  response,          \* the HTTP response of the handler
  prompt,            \* the prompt handed to streamText
  page,              \* fetcher: let page
  hasMore,           \* fetcher: let hasMore
  allPRs,            \* fetcher: const allPRs
  actualTotalCount,  \* fetcher (authenticated): let actualTotalCount
  elapsed,           \* fetcher: Date.now() - startTime
  requested,         \* the page numbers requested from GitHub, in order
  served,            \* the pages GitHub served: [page, items], in order
  firstTotal,        \* the total_count GitHub reported with page 1
  resp,              \* the response of the page request last settled
  fetchResult,       \* what the fetcher returned
  fetchError,        \* what the fetcher threw
  produced,          \* the chunks result.textStream has yielded, in order
  streamFailure,     \* what result.textStream threw (<<>> while it has not)
  enqueued,          \* the chunks given to controller.enqueue, in order
  closes,            \* the number of controller.close() calls
  lateEnqueues,      \* the number of controller.enqueue calls after a close
  applied,           \* the pure function applied ("" before any)
  input,             \* its arguments
  output,            \* what it returned
  fingerprint,       \* form: the fingerprint of useFingerprint ("" for none)
  apiEndpoint,       \* form: the route the form posts to
  formPc,            \* form: where submitForm is suspended
  reply,             \* form: the response fetch() resolved with
  unread,            \* form: the body chunks the reader has not delivered yet
  accumulatedText,   \* form: let accumulatedText
  generated,         \* form: the text last passed to onGenerate
  formError,         \* form: the error state (<<>> for null)
  isGenerating,      \* form: the isGenerating state
  quota,             \* limiter: requests counted per (namespace, identifier) in the window
  limited,           \* limiter: the limit() calls of the window: [route, identifier, success]
  mounted,           \* boundary: the component is mounted
  hasError,          \* boundary: state.hasError
  caughtError,       \* boundary: state.error ("" for undefined)
  retryCount,        \* boundary: state.retryCount
  retryTimer,        \* boundary: this.retryTimer, a timer handle (0 for undefined)
  pendingResets,     \* boundary: the handles of the timers scheduled, not yet fired or cleared
  lateResets,        \* boundary: the delayed resets that fired after unmount
  lastOp             \* boundary: the method that ran last

handlerVars == <<endpoint, req, session, ratelimit>>
fetchVars == <<page, hasMore, allPRs, actualTotalCount, elapsed, requested, served, firstTotal, resp>>
streamVars == <<produced, streamFailure, enqueued, closes, lateEnqueues>>
pureVars == <<applied, input, output>>
formVars == <<fingerprint, apiEndpoint, formPc, reply, unread, accumulatedText, generated, formError,
              isGenerating>>
quotaVars == <<quota, limited>>
boundaryVars == <<mounted, hasError, caughtError, retryCount, retryTimer, pendingResets,
                  lateResets, lastOp>>
componentVars == <<formVars, quotaVars, boundaryVars>>
requestVars == <<endpoint, req, pc, session, ratelimit, accessToken, calls, response, prompt,
                 fetchResult, fetchError, fetchVars>>
vars == <<endpoint, req, pc, session, ratelimit, accessToken, calls, response, prompt, page,
          hasMore, allPRs, actualTotalCount, elapsed, requested, served, firstTotal, resp,
          fetchResult, fetchError, produced, streamFailure, enqueued, closes, lateEnqueues,
          applied, input, output, fingerprint, apiEndpoint, formPc, reply, unread, accumulatedText,
          generated, formError, isGenerating, quota, limited, mounted, hasError,
          caughtError, retryCount, retryTimer, pendingResets, lateResets, lastOp>>

\* ------------------------------------------------------- strings and dates

\* String.prototype.includes for one character
Includes(s, c) == \E i \in 1..Len(s) : s[i] = c

\* index of the first "/" of s (s has one)
FirstSlash(s) == CHOOSE i \in 1..Len(s) : s[i] = "/" /\ \A j \in 1..(i - 1) : s[j] # "/"

\* repository.split("/")
RECURSIVE Split(_)
Split(s) ==
  IF ~Includes(s, "/") THEN <<s>>
  ELSE <<SubSeq(s, 1, FirstSlash(s) - 1)>> \o Split(SubSeq(s, FirstSlash(s) + 1, Len(s)))

\* a thrown Error: its name, its message template and what the template embeds
Err(name, message, resetTime, status) ==
  [name |-> name, message |-> message, resetTime |-> resetTime, status |-> status]

\* new Date(seconds * 1000).toLocaleTimeString(): the time of day, the date is lost
LocaleTimeString(seconds) == seconds % 86400

\* mutant of After: equal dates are refused too
AfterOrEqual(start, end) == start # InvalidDate /\ end # InvalidDate /\ start >= end

\* start > end of two Dates: false when either is an Invalid Date
After(start, end) == start # InvalidDate /\ end # InvalidDate /\ start > end

\* calculateDateRange(dateMode, days, startDate, endDate)
calculateDateRange(dateMode, days, startDate, endDate) ==
  IF dateMode = "days" /\ days # NoValue /\ days # 0
  THEN [ok |-> TRUE, start |-> Today - days, end |-> Today]
  ELSE IF dateMode = "range" /\ startDate # NoValue /\ endDate # NoValue
  THEN IF After(startDate, endDate)
       THEN [ok |-> FALSE,
             error |-> Err("Error", "Start date must be before end date", NoValue, NoValue)]
       ELSE [ok |-> TRUE, start |-> startDate, end |-> endDate]
  ELSE [ok |-> FALSE, error |-> Err("Error", "Invalid date configuration", NoValue, NoValue)]

\* ---------------------------------------------------------------- fetchers

\* the items GitHub serves for page p when it holds n of them: PR numbers,
\* numbered by their offset in the search result
Items(p, n) == [i \in 1..n |-> (p - 1) * PER_PAGE + i]

\* const [owner, repo] = repository.split("/"); if (!owner || !repo ...) throw
InvalidRepositoryFormat(e, repository) ==
  LET parts == Split(repository)
  IN  \/ parts[1] = <<>>
      \/ Len(parts) < 2
      \/ parts[2] = <<>>
      \/ (e = "auth" /\ Len(parts) # 2)

\* mutant of LoopContinues: the page cap is off by one
LoopContinuesOffByOne(more, p) == more /\ p <= MAX_PAGES + 1

\* while (hasMore && page <= 10)
LoopContinues(more, p) == more /\ p <= MAX_PAGES

\* mutant of BudgetExceeded: the budget of the repository listing (60 s) is used
BudgetExceededSixty(ms) == ms > 2 * TIMEOUT_MS

\* if (Date.now() - startTime > TIMEOUT_MS) break
BudgetExceeded(ms) == ms > TIMEOUT_MS

\* the abort timer of a page request fires before fetch() settles
AbortFires(wait) == wait > REQUEST_TIMEOUT_MS

\* mutant of PushItems: the page is put in front of the earlier pages
PushItemsInFront(all, items) == items \o all

\* allPRs.push(...data.items)
PushItems(all, items) == all \o items

\* if (page === 1) actualTotalCount = data.total_count ?? 0
RecordTotalCount(p, current, total_count) ==
  IF p = 1 THEN (IF total_count = NoValue THEN 0 ELSE total_count) ELSE current

\* hasMore after a page with n > 0 items, all being allPRs after the push
HasMoreAfter(e, all, n, total_count) ==
  IF e = "anon"
  THEN n = PER_PAGE
  ELSE (total_count = NoValue \/ Len(all) < total_count) /\ n = PER_PAGE

\* mutant of StatusError: 422 is answered like 404
StatusErrorConflated(e, status, reset) ==
  IF e = "auth" /\ status = 401
  THEN Err("Error", "GitHub access token is invalid or expired", NoValue, NoValue)
  ELSE IF status = 403
  THEN Err("Error", "GitHub API rate limit exceeded",
           IF reset = NoValue THEN Unknown ELSE LocaleTimeString(reset), NoValue)
  ELSE IF status = 404 \/ status = 422
  THEN Err("Error", "Repository not found", NoValue, NoValue)
  ELSE Err("Error", "GitHub API error", NoValue, status)

\* the error thrown for a response that is not ok
StatusError(e, status, reset) ==
  IF e = "auth" /\ status = 401
  THEN Err("Error", "GitHub access token is invalid or expired", NoValue, NoValue)
  ELSE IF status = 403
  THEN Err("Error", "GitHub API rate limit exceeded",
           IF reset = NoValue THEN Unknown ELSE LocaleTimeString(reset), NoValue)
  ELSE IF status = 404
  THEN Err("Error", "Repository not found", NoValue, NoValue)
  ELSE IF status = 422
  THEN Err("Error", "Invalid query parameters", NoValue, NoValue)
  ELSE Err("Error", "GitHub API error", NoValue, status)

\* mutant of CatchPageError: every caught Error is rethrown as it is
CatchPageErrorRethrow(error) ==
  IF error.name # "" THEN error ELSE Err("Error", "Failed to fetch PRs", NoValue, NoValue)

\* catch (error) of the page request: an AbortError becomes the request-timeout
\* error, any other Error is rethrown as it is, and a thrown value that is no
\* Error (name "") is wrapped
CatchPageError(error) ==
  IF error.name = "AbortError"
  THEN Err("Error", "Request timeout while fetching PRs from GitHub", NoValue, NoValue)
  ELSE IF error.name # ""
  THEN error
  ELSE Err("Error", "Failed to fetch PRs", NoValue, NoValue)

\* return { prs, totalCount, fetchedCount }
FetcherResult(e, all, total) ==
  IF e = "anon"
  THEN [prs |-> all, totalCount |-> Len(all), fetchedCount |-> NoValue]
  ELSE [prs |-> all, totalCount |-> total, fetchedCount |-> Len(all)]

\* --------------------------------------------------------------- responses

NoError == Err("", "", NoValue, NoValue)

NoResult == [prs |-> <<>>, totalCount |-> NoValue, fetchedCount |-> NoValue]

NoPrompt == [totalPRs |-> NoValue, provided |-> NoValue, data |-> <<>>, omitted |-> NoValue]

NoRequest ==
  [repository |-> <<>>, dateMode |-> "", days |-> NoValue, startDate |-> NoValue,
   endDate |-> NoValue, identifier |-> ""]

\* a response: its status, the kind of body, the body's fixed text, the error
\* and resetTime fields of a JSON body, and the error whose message the body embeds
Reply(status, type, body, error, resetTime, cause) ==
  [status |-> status, type |-> type, body |-> body, error |-> error,
   resetTime |-> resetTime, cause |-> cause]

NoResponse == Reply(0, "none", "", "", NoValue, NoError)

\* a response as the client sees it: the status, whether the body parses as
\* JSON, and the body as the byte chunks the reader delivers
ClientReply(status, json, body) == [status |-> status, json |-> json, body |-> body]

NoReply == ClientReply(0, FALSE, <<>>)

\* Response.json({ error }, { status })
JsonError(status, error) == Reply(status, "json", "", error, NoValue, NoError)

\* the outer catch of POST: a text body embedding the message, status 500
CatchResponse(error) == Reply(500, "text", "# Error Generating Changelog", "", NoValue, error)

\* the answer of POST when the limiter refuses the request
RateLimitResponse(e, answer) ==
  IF e = "anon"
  THEN Reply(429, "text", "try again later", "", NoValue, NoError)
  ELSE Reply(429, "json", "", "Rate limit exceeded", answer.reset, NoError)

\* mutant of NoPullRequests: the test is on a missing count
NoPullRequestsMissing(result) == result.totalCount = NoValue

\* if (totalCount === 0) return new Response("# No Pull Requests Found...")
NoPullRequests(result) == result.totalCount = 0

NoPullRequestsResponse == Reply(200, "text", "# No Pull Requests Found", "", NoValue, NoError)

\* return new Response(stream, ...)
StreamResponse == Reply(200, "stream", "", "", NoValue, NoError)

\* prSummaries.slice(0, 200)
FirstSummaries(summaries) ==
  SubSeq(summaries, 1, IF Len(summaries) < MAX_PROMPT_PRS THEN Len(summaries) ELSE MAX_PROMPT_PRS)

\* promptData and the counts the prompt states: the summaries are the PR numbers
BuildPrompt(e, result) ==
  IF result.totalCount > MAX_PROMPT_PRS
  THEN [totalPRs |-> result.totalCount,
        provided |-> IF e = "auth" THEN MAX_PROMPT_PRS ELSE NoValue,
        data |-> FirstSummaries(result.prs),
        omitted |-> result.totalCount - MAX_PROMPT_PRS]
  ELSE [totalPRs |-> result.totalCount,
        provided |-> IF e = "auth" THEN result.totalCount ELSE NoValue,
        data |-> result.prs,
        omitted |-> NoValue]

\* how a page request settled ("aborted", "failed" or "response") and its
\* response: status, rate-limit headers, and of the body the number of items
\* and total_count
PageResponse(outcome, status, remaining, reset, items, total_count) ==
  [outcome |-> outcome, status |-> status, remaining |-> remaining, reset |-> reset,
   items |-> items, total_count |-> total_count]

NoPageResponse == PageResponse("none", 0, NoValue, NoValue, NoValue, NoValue)

\* a call of a collaborator
Call(fn, arg) == [fn |-> fn, arg |-> arg]

\* ------------------------------------------------------------------ actions

\* no request has been received
IdleRequest ==
  /\ endpoint = ""
  /\ req = NoRequest
  /\ pc = "idle"
  /\ session = ""
  /\ ratelimit = [success |-> FALSE, reset |-> NoValue]
  /\ accessToken = ""
  /\ calls = <<>>
  /\ response = NoResponse
  /\ prompt = NoPrompt
  /\ page = 1
  /\ hasMore = TRUE
  /\ allPRs = <<>>
  /\ actualTotalCount = 0
  /\ elapsed = 0
  /\ requested = <<>>
  /\ served = <<>>
  /\ firstTotal = NoValue
  /\ resp = NoPageResponse
  /\ fetchResult = NoResult
  /\ fetchError = NoError

\* no stream has been created
IdleStream ==
  /\ produced = <<>>
  /\ streamFailure = <<>>
  /\ enqueued = <<>>
  /\ closes = 0
  /\ lateEnqueues = 0

\* no pure function has been applied
IdlePure ==
  /\ applied = ""
  /\ input = <<>>
  /\ output = <<>>

\* the form has not been submitted
IdleForm ==
  /\ fingerprint = ""
  /\ apiEndpoint = ""
  /\ formPc = "idle"
  /\ reply = NoReply
  /\ unread = <<>>
  /\ accumulatedText = <<>>
  /\ generated = <<>>
  /\ formError = <<>>
  /\ isGenerating = FALSE

\* the ids of the signed-in users
UserIds == {"u1"}

\* the identifiers a request body can carry: a fingerprint, or any other text
LimiterIdentifiers == {"fp1"} \cup UserIds

\* the counters of the rate-limit service
QuotaKeys == { <<ns, id>> : ns \in {"generator"}, id \in LimiterIdentifiers }

\* no request has been counted
IdleQuota ==
  /\ quota = [k \in QuotaKeys |-> 0]
  /\ limited = <<>>

\* new GlobalErrorBoundary(props), mounted
IdleBoundary ==
  /\ mounted = TRUE
  /\ hasError = FALSE
  /\ caughtError = ""
  /\ retryCount = 0
  /\ retryTimer = 0
  /\ pendingResets = {}
  /\ lateResets = 0
  /\ lastOp = "constructor"

\* no component of the client is active
IdleComponents == IdleForm /\ IdleQuota /\ IdleBoundary

Init == IdleRequest /\ IdleStream /\ IdlePure /\ IdleComponents

\* POST returns r
Return(r) ==
  /\ response' = r
  /\ pc' = "done"

\* the fetcher throws error, the outer catch of POST answers
FetcherThrows(error) ==
  /\ fetchError' = error
  /\ Return(CatchResponse(error))
  /\ UNCHANGED <<calls, prompt, fetchResult, requested>>

\* the fetcher returned result: POST from the zero test to its return
FetcherReturns(e, result) ==
  /\ fetchResult' = result
  /\ fetchError' = fetchError
  /\ requested' = requested
  /\ IF NoPullRequests(result)
     THEN /\ Return(NoPullRequestsResponse)
          /\ UNCHANGED <<calls, prompt>>
     ELSE /\ prompt' = BuildPrompt(e, result)
          /\ calls' = Append(calls, Call("streamText", ""))
          /\ response' = StreamResponse
          /\ pc' = "streaming"

\* the head of the paging loop with the locals as given: the next page is
\* requested, or the loop ends and the fetcher returns
LoopHead(e, all, p, more, total, ms) ==
  IF LoopContinues(more, p) /\ ~BudgetExceeded(ms)
  THEN /\ requested' = Append(requested, p)
       /\ calls' = Append(calls, Call("fetch", ""))
       /\ pc' = "awaitFetch"
       /\ UNCHANGED <<response, prompt, fetchResult, fetchError>>
  ELSE FetcherReturns(e, FetcherResult(e, all, total))

\* the RangeError toISOString() throws on an Invalid Date
InvalidTimeValue == Err("RangeError", "Invalid time value", NoValue, NoValue)

\* mutant of TokenMissing: a null token is not noticed
TokenMissingIgnored(token) == FALSE

\* if (!accessToken)
TokenMissing(token) == token = ""

\* POST from calculateDateRange to the first page request
StartFetch(e) ==
  LET range == calculateDateRange(req.dateMode, req.days, req.startDate, req.endDate)
  IN  IF ~range.ok
      THEN /\ Return(CatchResponse(range.error))
           /\ UNCHANGED <<calls, prompt, fetchResult, fetchError, fetchVars>>
      ELSE IF e = "anon" /\ (range.start = InvalidDate \/ range.end = InvalidDate)
      THEN /\ Return(CatchResponse(InvalidTimeValue))
           /\ UNCHANGED <<calls, prompt, fetchResult, fetchError, fetchVars>>
      ELSE IF InvalidRepositoryFormat(e, req.repository)
      THEN /\ FetcherThrows(Err("Error", "Invalid repository format", NoValue, NoValue))
           /\ UNCHANGED <<page, hasMore, allPRs, actualTotalCount, elapsed, served, firstTotal, resp>>
      ELSE IF range.start = InvalidDate \/ range.end = InvalidDate
      THEN /\ FetcherThrows(InvalidTimeValue)
           /\ UNCHANGED <<page, hasMore, allPRs, actualTotalCount, elapsed, served, firstTotal, resp>>
      ELSE /\ page' = 1
           /\ hasMore' = TRUE
           /\ allPRs' = <<>>
           /\ actualTotalCount' = 0
           /\ elapsed' = 0
           /\ UNCHANGED <<served, firstTotal, resp>>
           /\ LoopHead(e, <<>>, 1, TRUE, 0, 0)

\* POST is entered: the body is parsed and validated up to the first await
Receive ==
  /\ pc = "idle"
  /\ \E e \in Endpoints, repository \in Repositories, cfg \in DateConfigs, id \in Identifiers :
       /\ e = "auth" => id = ""
       /\ endpoint' = e
       /\ req' = [repository |-> repository, dateMode |-> cfg.dateMode, days |-> cfg.days,
                  startDate |-> cfg.startDate, endDate |-> cfg.endDate, identifier |-> id]
       /\ IF repository = <<>>
          THEN Return(JsonError(400, "Repository is required")) /\ calls' = calls
          ELSE IF ~Includes(repository, "/") \/ Len(Split(repository)) # 2
          THEN Return(JsonError(400, "Invalid repository format")) /\ calls' = calls
          ELSE IF e = "anon" /\ id = ""
          THEN Return(JsonError(400, "Fingerprint identifier is required")) /\ calls' = calls
          ELSE IF e = "anon"
          THEN /\ calls' = Append(calls, Call("limit", id))
               /\ pc' = "limit"
               /\ response' = response
          ELSE /\ calls' = Append(calls, Call("requireAuth", ""))
               /\ pc' = "requireAuth"
               /\ response' = response
  /\ UNCHANGED <<session, ratelimit, prompt, fetchResult, fetchError, fetchVars>>
  /\ UNCHANGED <<accessToken, streamVars, pureVars, componentVars>>

\* requireAuth() settles: a session, or it throws
RequireAuthSettles ==
  /\ pc = "requireAuth"
  /\ \E user \in {"", "u1"} :
       IF user = ""
       THEN /\ Return(JsonError(401, "Authentication required"))
            /\ UNCHANGED <<session, calls>>
       ELSE /\ session' = user
            /\ calls' = Append(calls, Call("limit", user))
            /\ pc' = "limit"
            /\ response' = response
  /\ UNCHANGED <<endpoint, req, ratelimit, prompt, fetchResult, fetchError, fetchVars>>
  /\ UNCHANGED <<accessToken, streamVars, pureVars, componentVars>>

\* the rate limiter answers
LimitSettles ==
  /\ pc = "limit"
  /\ \E answer \in LimitAnswers :
       /\ ratelimit' = answer
       /\ IF ~answer.success
          THEN /\ Return(RateLimitResponse(endpoint, answer))
               /\ UNCHANGED <<calls, prompt, fetchResult, fetchError, fetchVars>>
          ELSE IF endpoint = "auth"
          THEN /\ calls' = Append(calls, Call("getGitHubToken", session))
               /\ pc' = "getGitHubToken"
               /\ UNCHANGED <<response, prompt, fetchResult, fetchError, fetchVars>>
          ELSE StartFetch(endpoint)
  /\ UNCHANGED <<endpoint, req, session>>
  /\ UNCHANGED <<accessToken, streamVars, pureVars, componentVars>>

\* getGitHubToken() settles: the token, or null when absent or expired
GetGitHubTokenSettles ==
  /\ pc = "getGitHubToken"
  /\ \E token \in {"", "tok"} :
       /\ accessToken' = token
       /\ IF TokenMissing(token)
          THEN /\ Return(JsonError(401, "GitHub access token not found or expired"))
               /\ UNCHANGED <<calls, prompt, fetchResult, fetchError, fetchVars>>
          ELSE StartFetch(endpoint)
  /\ UNCHANGED <<handlerVars, streamVars, pureVars, componentVars>>

\* the abort timer of the page request fires before fetch() settles
PageRequestAborted ==
  /\ pc = "awaitFetch"
  /\ \E wait \in WaitTimes :
       /\ AbortFires(wait)
       /\ elapsed' = elapsed + REQUEST_TIMEOUT_MS
       /\ resp' = PageResponse("aborted", 0, NoValue, NoValue, NoValue, NoValue)
       /\ FetcherThrows(CatchPageError(Err("AbortError", "This operation was aborted", NoValue, NoValue)))
  /\ UNCHANGED <<handlerVars, page, hasMore, allPRs, actualTotalCount, served, firstTotal>>
  /\ UNCHANGED <<accessToken, streamVars, pureVars, componentVars>>

\* fetch() rejects: the connection failed
PageRequestFails ==
  /\ pc = "awaitFetch"
  /\ \E wait \in WaitTimes :
       /\ ~AbortFires(wait)
       /\ elapsed' = elapsed + wait
       /\ resp' = PageResponse("failed", 0, NoValue, NoValue, NoValue, NoValue)
       /\ FetcherThrows(CatchPageError(Err("TypeError", "fetch failed", NoValue, NoValue)))
  /\ UNCHANGED <<handlerVars, page, hasMore, allPRs, actualTotalCount, served, firstTotal>>
  /\ UNCHANGED <<accessToken, streamVars, pureVars, componentVars>>

\* fetch() settles with a response: a status that is not ok throws
PageResponseArrives ==
  /\ pc = "awaitFetch"
  /\ \E wait \in WaitTimes, status \in Statuses, remaining \in RemainingHeaders,
        reset \in ResetHeaders :
       /\ ~AbortFires(wait)
       /\ status # 403 => (remaining = NoValue /\ reset = NoValue)
       /\ elapsed' = elapsed + wait
       /\ resp' = PageResponse("response", status, remaining, reset, NoValue, NoValue)
       /\ IF status = 200
          THEN /\ pc' = "awaitJson"
               /\ UNCHANGED <<calls, response, prompt, fetchResult, fetchError, requested>>
          ELSE FetcherThrows(CatchPageError(StatusError(endpoint, status, reset)))
  /\ UNCHANGED <<handlerVars, page, hasMore, allPRs, actualTotalCount, served, firstTotal>>
  /\ UNCHANGED <<accessToken, streamVars, pureVars, componentVars>>

\* response.json() settles: the page is applied and the loop goes round
PageBodyArrives ==
  /\ pc = "awaitJson"
  /\ \E n \in ItemCounts, total_count \in TotalCounts, read \in BodyTimes :
       LET total == IF endpoint = "auth"
                    THEN RecordTotalCount(page, actualTotalCount, total_count)
                    ELSE actualTotalCount
           all   == IF n > 0 THEN PushItems(allPRs, Items(page, n)) ELSE allPRs
           more  == IF n > 0 THEN HasMoreAfter(endpoint, all, n, total_count) ELSE FALSE
           p     == IF n > 0 THEN page + 1 ELSE page
           ms    == elapsed + read
       IN  /\ served' = Append(served, [page |-> page, items |-> n])
           /\ firstTotal' = IF page = 1 THEN total_count ELSE firstTotal
           /\ resp' = PageResponse("response", resp.status, resp.remaining, resp.reset, n, total_count)
           /\ actualTotalCount' = total
           /\ allPRs' = all
           /\ hasMore' = more
           /\ page' = p
           /\ elapsed' = ms
           /\ LoopHead(endpoint, all, p, more, total, ms)
  /\ UNCHANGED handlerVars
  /\ UNCHANGED <<accessToken, streamVars, pureVars, componentVars>>

Next ==
  \/ Receive
  \/ RequireAuthSettles
  \/ LimitSettles
  \/ GetGitHubTokenSettles
  \/ PageRequestAborted
  \/ PageRequestFails
  \/ PageResponseArrives
  \/ PageBodyArrives

Spec == Init /\ [][Next]_vars

\* the handler under the scheduling the runtime guarantees: a pending abort
\* timer fires; nothing makes GitHub, the limiter or the session store answer
SpecLive == Init /\ [][Next]_vars /\ WF_vars(PageRequestAborted)

\* ------------------------------------------------------ repository validator

\* the longest owner or repository name: repoName.length > 100 || owner.length > 100
MAX_NAME_LENGTH == 100

\* the longest prefix of the repository strings the validator is applied to
MaxPrefixLen == 3

\* the characters those prefixes are made of
RepoAlphabet == {"g", "i", "t", ".", "/", "!"}

Letters ==
  {"a", "b", "c", "d", "e", "f", "g", "h", "i", "j", "k", "l", "m", "n", "o", "p", "q", "r",
   "s", "t", "u", "v", "w", "x", "y", "z",
   "A", "B", "C", "D", "E", "F", "G", "H", "I", "J", "K", "L", "M", "N", "O", "P", "Q", "R",
   "S", "T", "U", "V", "W", "X", "Y", "Z"}

Digits == {"0", "1", "2", "3", "4", "5", "6", "7", "8", "9"}

\* a name of n characters "g"
LongName(n) == [i \in 1..n |-> "g"]

\* the strings the validator is applied to: every prefix over the alphabet
\* followed by one of a few endings, and names of 100 and 101 characters
RepoInputs ==
  LET prefixes == UNION { [1..n -> RepoAlphabet] : n \in 0..MaxPrefixLen }
      endings  == { <<>>, <<".", "g", "i", "t">>, <<"/", ".", "g", "i", "t">>,
                    <<".", "g", "i", "t", "t">>, <<"/", "_", "-", "7", "Z">> }
  IN  { p \o e : p \in prefixes, e \in endings }
        \cup { LongName(n) \o <<"/", "g">> : n \in {MAX_NAME_LENGTH, MAX_NAME_LENGTH + 1} }
        \cup { <<"g", "/">> \o LongName(n) : n \in {MAX_NAME_LENGTH, MAX_NAME_LENGTH + 1} }

\* String.prototype.endsWith
EndsWith(s, suffix) ==
  /\ Len(s) >= Len(suffix)
  /\ SubSeq(s, Len(s) - Len(suffix) + 1, Len(s)) = suffix

\* /^[a-zA-Z0-9._-]+$/.test(s)
ValidChars(s) ==
  /\ Len(s) >= 1
  /\ \A i \in 1..Len(s) : s[i] \in Letters \cup Digits \cup {".", "_", "-"}

\* mutant of TooLong: the limit is tested with >=
TooLongInclusive(owner, repoName) ==
  Len(repoName) >= MAX_NAME_LENGTH \/ Len(owner) >= MAX_NAME_LENGTH

\* repoName.length > 100 || owner.length > 100
TooLong(owner, repoName) == Len(repoName) > MAX_NAME_LENGTH \/ Len(owner) > MAX_NAME_LENGTH

\* isValidGitHubRepo(repo), return by return
isValidGitHubRepo(repo) ==
  LET parts == Split(repo)
  IN  IF Len(parts) # 2 THEN FALSE
      ELSE LET owner == parts[1]
               repoName == parts[2]
           IN  IF \/ owner = <<>>
                  \/ repoName = <<>>
                  \/ owner = <<".">>
                  \/ owner = <<".", ".">>
                  \/ repoName = <<".">>
                  \/ repoName = <<".", ".">>
               THEN FALSE
               ELSE IF EndsWith(repoName, <<".", "g", "i", "t">>) THEN FALSE
               ELSE IF ~ValidChars(owner) \/ ~ValidChars(repoName) THEN FALSE
               ELSE IF TooLong(owner, repoName) THEN FALSE
               ELSE TRUE

\* what extractOwnerAndRepo returns: null, or { owner, repo }
OwnerAndRepo(isNull, owner, repo) == [isNull |-> isNull, owner |-> owner, repo |-> repo]

\* extractOwnerAndRepo(fullName)
extractOwnerAndRepo(fullName) ==
  IF ~isValidGitHubRepo(fullName)
  THEN OwnerAndRepo(TRUE, <<>>, <<>>)
  ELSE OwnerAndRepo(FALSE, Split(fullName)[1], Split(fullName)[2])

\* ------------------------------------------------------- the error classifier

\* an optional value: absent (undefined), or present
Absent == <<>>

Present(v) == <<v>>

\* the NaN parseInt gives for a string that does not start with a number
NaN == 0 - 4000000

\* the limit reported when the limit header is missing or no number
DEFAULT_LIMIT == 60

DigitString == <<"0", "1", "2", "3", "4", "5", "6", "7", "8", "9">>

DigitValue(c) == (CHOOSE i \in 1..10 : DigitString[i] = c) - 1

\* the digits a string starts with
LeadingDigits(text) ==
  LET n == CHOOSE k \in 0..Len(text) :
             /\ \A i \in 1..k : text[i] \in Digits
             /\ k = Len(text) \/ text[k + 1] \notin Digits
  IN  SubSeq(text, 1, n)

RECURSIVE DecimalValue(_)
DecimalValue(ds) ==
  IF ds = <<>> THEN 0
  ELSE DecimalValue(SubSeq(ds, 1, Len(ds) - 1)) * 10 + DigitValue(ds[Len(ds)])

\* parseInt(String(text), 10) of a header without sign or leading blanks
parseInt(text) ==
  IF LeadingDigits(text) = <<>> THEN NaN ELSE DecimalValue(LeadingDigits(text))

UpperCase ==
  <<"A", "B", "C", "D", "E", "F", "G", "H", "I", "J", "K", "L", "M", "N", "O", "P", "Q", "R",
    "S", "T", "U", "V", "W", "X", "Y", "Z">>

LowerCase ==
  <<"a", "b", "c", "d", "e", "f", "g", "h", "i", "j", "k", "l", "m", "n", "o", "p", "q", "r",
    "s", "t", "u", "v", "w", "x", "y", "z">>

\* text.toLowerCase()
toLowerCase(text) ==
  [i \in 1..Len(text) |->
     IF \E j \in 1..26 : UpperCase[j] = text[i]
     THEN LowerCase[CHOOSE j \in 1..26 : UpperCase[j] = text[i]]
     ELSE text[i]]

\* text.includes(part)
IncludesText(text, part) ==
  \E i \in 1..(Len(text) - Len(part) + 1) : SubSeq(text, i, i + Len(part) - 1) = part

\* "expired"
Expired == <<"e", "x", "p", "i", "r", "e", "d">>

\* "token has expired"
TokenHasExpired == 
  <<"t", "o", "k", "e", "n", " ", "h", "a", "s", " ", "e", "x", "p", "i", "r", "e", "d">>

\* the messages of the classified errors
AuthenticationRequired == 
  <<"A", "u", "t", "h", "e", "n", "t", "i", "c", "a", "t", "i", "o", "n", " ", "r", 
    "e", "q", "u", "i", "r", "e", "d", " ", "t", "o", " ", "a", "c", "c", "e", "s", 
    "s", " ", "t", "h", "i", "s", " ", "r", "e", "p", "o", "s", "i", "t", "o", "r", 
    "y">>

ApiRateLimitExceeded == 
  <<"A", "P", "I", " ", "r", "a", "t", "e", " ", "l", "i", "m", "i", "t", " ", "e", 
    "x", "c", "e", "e", "d", "e", "d">>

AccessForbidden == 
  <<"A", "c", "c", "e", "s", "s", " ", "f", "o", "r", "b", "i", "d", "d", "e", "n">>

RepositoryNotFound == 
  <<"R", "e", "p", "o", "s", "i", "t", "o", "r", "y", " ", "n", "o", "t", " ", "f", 
    "o", "u", "n", "d">>

TokenExpired == 
  <<"Y", "o", "u", "r", " ", "G", "i", "t", "H", "u", "b", " ", "t", "o", "k", "e", 
    "n", " ", "h", "a", "s", " ", "e", "x", "p", "i", "r", "e", "d">>

ServerError == 
  <<"G", "i", "t", "H", "u", "b", " ", "s", "e", "r", "v", "e", "r", " ", "e", "r", 
    "r", "o", "r", ".", " ", "P", "l", "e", "a", "s", "e", " ", "t", "r", "y", " ", 
    "a", "g", "a", "i", "n", " ", "l", "a", "t", "e", "r", ".">>

NetworkFailed == 
  <<"N", "e", "t", "w", "o", "r", "k", " ", "c", "o", "n", "n", "e", "c", "t", "i", 
    "o", "n", " ", "f", "a", "i", "l", "e", "d">>

UnexpectedError == 
  <<"A", "n", " ", "u", "n", "e", "x", "p", "e", "c", "t", "e", "d", " ", "e", "r", 
    "r", "o", "r", " ", "o", "c", "c", "u", "r", "r", "e", "d">>

\* createGitHubError(type, message, options)
createGitHubError(type, message, status, resetTime, remaining, limit) ==
  [type |-> type, message |-> message, status |-> status, resetTime |-> resetTime,
   remaining |-> remaining, limit |-> limit]

\* mutant of RateLimited: any remaining header counts as exhausted
RateLimitedAnyRemaining(remaining) == remaining # Absent

\* remaining !== undefined && String(remaining) === "0"
RateLimited(remaining) == remaining # Absent /\ remaining[1] = <<"0">>

\* resetTime of a rate_limit error, in milliseconds, or undefined
ResetTimeOf(reset) ==
  IF reset = Absent \/ reset[1] = <<>> \/ parseInt(reset[1]) = NaN
  THEN NoValue
  ELSE parseInt(reset[1]) * 1000

\* limit of a rate_limit error
LimitOf(limit) ==
  IF limit = Absent \/ limit[1] = <<>> \/ parseInt(limit[1]) = NaN
  THEN DEFAULT_LIMIT
  ELSE parseInt(limit[1])

\* data?.message?.toLowerCase().includes("expired") || ...includes("token has expired")
MentionsExpired(message) ==
  /\ message # Absent
  /\ \/ IncludesText(toLowerCase(message[1]), Expired)
     \/ IncludesText(toLowerCase(message[1]), TokenHasExpired)

\* the kinds of GitHubError
ErrorKinds ==
  {"rate_limit", "auth", "not_found", "forbidden", "network", "server", "token_expired",
   "unknown"}

\* the argument of parseGitHubError: null, or an object with an optional
\* response (status, data.message, the three rate-limit headers), code, name
\* and message
Failure(isNull, resp0, code, name, message) ==
  [isNull |-> isNull, response |-> resp0, code |-> code, name |-> name, message |-> message]

HttpResponse(status, message, remaining, reset, limit) ==
  [status |-> status, message |-> message, remaining |-> remaining, reset |-> reset,
   limit |-> limit]

\* parseGitHubError(error), after the switch on the status
parseOtherError(error) ==
  IF ~error.isNull /\ (error.code = "NETWORK_ERROR" \/ error.name = "NetworkError")
  THEN createGitHubError("network", NetworkFailed, NoValue, NoValue, NoValue, NoValue)
  ELSE createGitHubError("unknown",
                         IF error.isNull \/ error.message = Absent \/ error.message[1] = <<>>
                         THEN UnexpectedError ELSE error.message[1],
                         NoValue, NoValue, NoValue, NoValue)

\* parseGitHubError(error)
parseGitHubError(error) ==
  IF error.isNull \/ error.response = Absent
  THEN parseOtherError(error)
  ELSE LET r == error.response[1]
       IN  IF r.status = 401
           THEN createGitHubError("auth", AuthenticationRequired, NoValue, NoValue, NoValue, NoValue)
           ELSE IF r.status = 403 /\ RateLimited(r.remaining)
           THEN createGitHubError("rate_limit", ApiRateLimitExceeded, r.status,
                                  ResetTimeOf(r.reset), 0, LimitOf(r.limit))
           ELSE IF r.status = 403
           THEN createGitHubError("forbidden",
                                  IF r.message = Absent \/ r.message[1] = <<>>
                                  THEN AccessForbidden ELSE r.message[1],
                                  NoValue, NoValue, NoValue, NoValue)
           ELSE IF r.status = 404
           THEN createGitHubError("not_found", RepositoryNotFound, NoValue, NoValue, NoValue, NoValue)
           ELSE IF r.status = 422 /\ MentionsExpired(r.message)
           THEN createGitHubError("token_expired", TokenExpired, NoValue, NoValue, NoValue, NoValue)
           ELSE IF r.status \in {500, 502, 503, 504}
           THEN createGitHubError("server", ServerError, NoValue, NoValue, NoValue, NoValue)
           ELSE parseOtherError(error)

\* the statuses of a failed request
FailureStatuses == {400, 401, 403, 404, 422, 500, 502, 503, 504}

\* data.message: missing, "", "Validation Failed", "Token Expired", "expire"
DataMessages ==
  { Absent, Present(<<>>), Present(<<"V", "a", "l", "i", "d", "a", "t", "i", "o", "n", " ", "F", "a", "i", "l", "e", "d">>),
    Present(<<"T", "o", "k", "e", "n", " ", "E", "x", "p", "i", "r", "e", "d">>),
    Present(<<"e", "x", "p", "i", "r", "e">>) }

\* x-ratelimit-remaining: missing, "", "0", "59"
RemainingValues == { Absent, Present(<<>>), Present(<<"0">>), Present(<<"5", "9">>) }

\* x-ratelimit-reset: missing, "", "1700000", "soon"
ResetValues ==
  { Absent, Present(<<>>), Present(<<"1", "7", "0", "0", "0", "0", "0">>),
    Present(<<"s", "o", "o", "n">>) }

\* x-ratelimit-limit: missing, "5000", "12x", "many"
LimitValues ==
  { Absent, Present(<<"5", "0", "0", "0">>), Present(<<"1", "2", "x">>),
    Present(<<"m", "a", "n", "y">>) }

\* the responses of a failed request: the headers vary with a 403, the
\* message with a 403 or 422
FailureResponses ==
  { HttpResponse(403, m, rem, rst, lim) :
      m \in {Absent, Present(<<"V", "a", "l", "i", "d", "a", "t", "i", "o", "n", " ", "F", "a", "i", "l", "e", "d">>)},
      rem \in RemainingValues, rst \in ResetValues, lim \in LimitValues }
    \cup { HttpResponse(422, m, Absent, Absent, Absent) : m \in DataMessages }
    \cup { HttpResponse(st, Absent, Absent, Absent, Absent) : st \in FailureStatuses \ {403, 422} }

\* ------------------------------------------------------------ pure functions

\* an application of a pure function that is still to be made
Application(f, a) == [f |-> f, a |-> a]

\* the applications of the validator
ValidatorInputs == { Application("extractOwnerAndRepo", r) : r \in RepoInputs }

\* extractOwnerAndRepo and, inside it, isValidGitHubRepo are applied
ApplyValidator ==
  /\ applied = ""
  /\ input.f = "extractOwnerAndRepo"
  /\ applied' = input.f
  /\ output' = [valid |-> isValidGitHubRepo(input.a), extracted |-> extractOwnerAndRepo(input.a)]
  /\ UNCHANGED <<input, requestVars, streamVars, componentVars>>

\* the arguments calculateDateRange is applied to
DateInputs ==
  { Application("calculateDateRange",
                [dateMode |-> m, days |-> d, startDate |-> s, endDate |-> e]) :
      m \in {"days", "range", "other"},
      d \in {NoValue, 0, 1, 30, 0 - 3},
      s \in {NoValue, InvalidDate, 10, 20},
      e \in {NoValue, InvalidDate, 10, 20} }

\* calculateDateRange is applied
ApplyCalculateDateRange ==
  /\ applied = ""
  /\ input.f = "calculateDateRange"
  /\ applied' = input.f
  /\ output' = calculateDateRange(input.a.dateMode, input.a.days, input.a.startDate,
                                  input.a.endDate)
  /\ UNCHANGED <<input, requestVars, streamVars, componentVars>>

\* pr.body.substring(0, 500)
BODY_LIMIT == 500

\* "No description provided"
NoDescription ==
  <<"N", "o", " ", "d", "e", "s", "c",
    "r", "i", "p", "t", "i", "o", "n", " ", "p", "r", "o", "v", "i", "d", "e", "d">>

\* pr.body: null, or a string
Body(isNull, text) == [isNull |-> isNull, text |-> text]

\* a body of n characters, each telling its position
BodyText(n) == [i \in 1..n |-> <<"a", "b", "c">>[(i % 3) + 1]]

\* the body field of a PR summary
SummaryBody(body) ==
  IF ~body.isNull /\ body.text # <<>>
  THEN SubSeq(body.text, 1, IF Len(body.text) < BODY_LIMIT THEN Len(body.text) ELSE BODY_LIMIT)
  ELSE NoDescription

\* the PR bodies the summary is built from
BodyInputs ==
  { Application("summaryBody", Body(TRUE, <<>>)) }
    \cup { Application("summaryBody", Body(FALSE, BodyText(n))) :
             n \in {0, 1, BODY_LIMIT - 1, BODY_LIMIT, BODY_LIMIT + 1, BODY_LIMIT + 100} }

\* prs.map(...) builds the summary body of one PR
ApplySummaryBody ==
  /\ applied = ""
  /\ input.f = "summaryBody"
  /\ applied' = input.f
  /\ output' = SummaryBody(input.a)
  /\ UNCHANGED <<input, requestVars, streamVars, componentVars>>

\* the arguments parseGitHubError is applied to
ClassifierInputs ==
  { Application("parseGitHubError", Failure(TRUE, Absent, "", "", Absent)) }
    \cup { Application("parseGitHubError", Failure(FALSE, r, code, name, m)) :
             r \in {Absent} \cup { Present(x) : x \in FailureResponses },
             code \in {"", "NETWORK_ERROR"},
             name \in {"Error", "NetworkError", "AbortError", "TypeError"},
             m \in {Absent, Present(<<"b", "o", "o", "m">>)} }

\* parseGitHubError is applied
ApplyParseGitHubError ==
  /\ applied = ""
  /\ input.f = "parseGitHubError"
  /\ applied' = input.f
  /\ output' = parseGitHubError(input.a)
  /\ UNCHANGED <<input, requestVars, streamVars, componentVars>>

\* a search that matches count PRs and reports total_count, answered after
\* wait ms with a body read in read ms; page failAt (0 for none) is answered
\* with status
Search(count, total_count, failAt, status, wait, read) ==
  [count |-> count, total_count |-> total_count, failAt |-> failAt, status |-> status,
   wait |-> wait, read |-> read]

\* the response of GitHub to the request for page p of search g
PageOf(g, p) ==
  LET left == g.count - (p - 1) * PER_PAGE
      n    == IF left < 0 THEN 0 ELSE IF left > PER_PAGE THEN PER_PAGE ELSE left
  IN  PageResponse("response", IF g.failAt = p THEN g.status ELSE 200, NoValue, NoValue, n,
                   g.total_count)

\* how a call of a fetcher ended: the pages it requested, what it threw and
\* what it returned
Outcome(pages, error, result) == [requested |-> pages, threw |-> error, result |-> result]

RECURSIVE FetchLoop(_, _, _, _, _, _, _, _)
\* the paging loop of fetcher e against search g, from its head with the
\* locals as given, pages being the page numbers requested so far
FetchLoop(e, g, all, p, more, total, ms, pages) ==
  IF ~(LoopContinues(more, p) /\ ~BudgetExceeded(ms))
  THEN Outcome(pages, NoError, FetcherResult(e, all, total))
  ELSE LET r == PageOf(g, p)
           n == r.items
       IN  IF AbortFires(g.wait)
           THEN Outcome(Append(pages, p),
                        CatchPageError(Err("AbortError", "This operation was aborted",
                                           NoValue, NoValue)),
                        NoResult)
           ELSE IF r.status # 200
           THEN Outcome(Append(pages, p),
                        CatchPageError(StatusError(e, r.status, r.reset)), NoResult)
           ELSE LET all2 == IF n > 0 THEN PushItems(all, Items(p, n)) ELSE all
                IN  FetchLoop(e, g, all2,
                              IF n > 0 THEN p + 1 ELSE p,
                              IF n > 0 THEN HasMoreAfter(e, all2, n, r.total_count) ELSE FALSE,
                              IF e = "auth" THEN RecordTotalCount(p, total, r.total_count)
                              ELSE total,
                              ms + g.wait + g.read,
                              Append(pages, p))

\* fetchGitHubPRs (e = "anon") or fetchGitHubPRsAuthenticated (e = "auth")
\* called for a valid repository against search g
RunFetcher(e, g) == FetchLoop(e, g, <<>>, 1, TRUE, 0, 0, <<>>)

\* the searches both fetchers are run against
SearchInputs ==
  { Application("fetchGitHubPRs", Search(n, n, failAt, st, 2000, read)) :
      n \in {0, 50, PER_PAGE, 150, 1000, MaxTotalCount},
      failAt \in {0, 1, 2}, st \in {401, 404}, read \in BodyTimes }

\* both fetchers are called with the same arguments against the same search
ApplyFetchers ==
  /\ applied = ""
  /\ input.f = "fetchGitHubPRs"
  /\ applied' = input.f
  /\ output' = [anon |-> RunFetcher("anon", input.a), auth |-> RunFetcher("auth", input.a)]
  /\ UNCHANGED <<input, requestVars, streamVars, componentVars>>

\* a fetched PR: its number and its user (absent when user is null)
PullRequest(number, user) == [number |-> number, user |-> user]

\* the TypeError of reading login of null
CannotReadLogin ==
  Err("TypeError", "Cannot read properties of null (reading 'login')", NoValue, NoValue)

\* author of the summary of pr: pr.user.login (anonymous route),
\* pr.user?.login || "unknown" (authenticated route); "" where reading it throws
Author(e, pr) ==
  IF pr.user # Absent THEN pr.user[1]
  ELSE IF e = "auth" THEN "unknown"
  ELSE ""

\* prs.map(...) of route e: the authors of the summaries, or what it throws
prSummaries(e, prs) ==
  IF e = "anon" /\ \E i \in 1..Len(prs) : prs[i].user = Absent
  THEN [threw |-> CannotReadLogin, authors |-> <<>>,
        response |-> CatchResponse(CannotReadLogin)]
  ELSE [threw |-> NoError, authors |-> [i \in 1..Len(prs) |-> Author(e, prs[i])],
        response |-> StreamResponse]

\* the fetched PRs the summaries are built from: one or two PRs, with and
\* without a user
SummaryInputs ==
  { Application("prSummaries", [e |-> e, prs |-> <<PullRequest(1, u)>>]) :
      e \in Endpoints, u \in {Absent, Present("octocat")} }
    \cup { Application("prSummaries",
                       [e |-> e, prs |-> <<PullRequest(1, u), PullRequest(2, v)>>]) :
             e \in Endpoints, u \in {Absent, Present("octocat")},
             v \in {Absent, Present("hubot")} }

\* the route builds the summaries of the fetched PRs
ApplyPrSummaries ==
  /\ applied = ""
  /\ input.f = "prSummaries"
  /\ applied' = input.f
  /\ output' = prSummaries(input.a.e, input.a.prs)
  /\ UNCHANGED <<input, requestVars, streamVars, componentVars>>

\* per_page: Math.min(30, ...)
REPOS_PER_PAGE == 30

\* const TIMEOUT_MS = 60000 of fetchAllUserRepositories
REPOS_TIMEOUT_MS == 60000

\* page <= 10 of fetchAllUserRepositories
REPOS_MAX_PAGES == 10

\* GET /user/repos?page=&per_page= for a user with count repositories, the
\* repositories being numbered by their place in the listing: the page, and
\* whether the Link header has rel="next"
RepoPage(count, pageNo, per_page) ==
  LET first == (pageNo - 1) * per_page + 1
      last  == IF pageNo * per_page < count THEN pageNo * per_page ELSE count
  IN  [repositories |-> IF last < first THEN <<>> ELSE [i \in 1..(last - first + 1) |-> first + i - 1],
       hasNextPage |-> pageNo * per_page < count]

\* per_page of the next request
PerPage(maxRepos, fetched) ==
  IF maxRepos - fetched < REPOS_PER_PAGE THEN maxRepos - fetched ELSE REPOS_PER_PAGE

RECURSIVE RepoLoop(_, _, _, _, _, _)
\* the loop of fetchAllUserRepositories from its head, with the locals as
\* given and pages being the (page, per_page) requests made so far
RepoLoop(u, all, pageNo, hasNextPage, ms, pages) ==
  IF ~(hasNextPage /\ Len(all) < u.maxRepos /\ pageNo <= REPOS_MAX_PAGES)
       \/ ms > REPOS_TIMEOUT_MS
  THEN [repositories |-> all, requests |-> pages]
  ELSE LET per_page == PerPage(u.maxRepos, Len(all))
           r        == RepoPage(u.count, pageNo, per_page)
       IN  RepoLoop(u, all \o r.repositories, pageNo + 1, r.hasNextPage, ms + u.wait,
                    Append(pages, [page |-> pageNo, per_page |-> per_page]))

\* fetchAllUserRepositories(accessToken, { maxRepos }) for a user with count
\* repositories, each request taking wait ms
fetchAllUserRepositories(u) == RepoLoop(u, <<>>, 1, TRUE, 0, <<>>)

\* the users and limits the listing is fetched for
RepositoryInputs ==
  { Application("fetchAllUserRepositories", [count |-> c, maxRepos |-> m, wait |-> w]) :
      c \in {0, 10, 30, 45, 100, 120, 250, 400},
      m \in {1, 30, 50, 100, 200},
      w \in {1000, 25000} }

\* fetchAllUserRepositories is applied
ApplyFetchAllUserRepositories ==
  /\ applied = ""
  /\ input.f = "fetchAllUserRepositories"
  /\ applied' = input.f
  /\ output' = fetchAllUserRepositories(input.a)
  /\ UNCHANGED <<input, requestVars, streamVars, componentVars>>

\* i is a call of one of the pure functions with arguments of its domain
PureInputs(i) ==
  \/ i \in ValidatorInputs
  \/ i \in DateInputs
  \/ i \in BodyInputs
  \/ i \in ClassifierInputs
  \/ i \in SearchInputs
  \/ i \in SummaryInputs
  \/ i \in RepositoryInputs

InitPure ==
  /\ IdleRequest
  /\ IdleStream
  /\ IdleComponents
  /\ applied = ""
  /\ output = <<>>
  /\ PureInputs(input)

NextPure ==
  \/ ApplyValidator
  \/ ApplyCalculateDateRange
  \/ ApplySummaryBody
  \/ ApplyParseGitHubError
  \/ ApplyFetchers
  \/ ApplyPrSummaries
  \/ ApplyFetchAllUserRepositories

SpecPure == InitPure /\ [][NextPure]_vars

\* ------------------------------------------------------- the streaming relay

\* the most chunks the generation backend produces for one response
MaxChunks == 3

\* the chunks of result.textStream, as strings of code points: "Hi", "é€", ""
Chunks == { <<72, 105>>, <<233, 8364>>, <<>> }

\* what the for await loop can throw: an Error with its message ("boom", ""),
\* or a value that is no Error
Thrown(isError, message) == [isError |-> isError, message |-> message]

Failures == { Thrown(TRUE, <<98, 111, 111, 109>>), Thrown(TRUE, <<>>), Thrown(FALSE, <<>>) }

\* UTF-8 bytes of one code point below 65536
EncodeCodePoint(c) ==
  IF c < 128 THEN <<c>>
  ELSE IF c < 2048 THEN <<192 + (c \div 64), 128 + (c % 64)>>
  ELSE <<224 + (c \div 4096), 128 + ((c \div 64) % 64), 128 + (c % 64)>>

RECURSIVE Encode(_)
\* encoder.encode(text): the UTF-8 bytes of the string
Encode(text) ==
  IF text = <<>> THEN <<>> ELSE EncodeCodePoint(Head(text)) \o Encode(Tail(text))

\* "\n\n---\n\n**Error:** "
ErrorMarker == <<10, 10, 45, 45, 45, 10, 10, 42, 42, 69, 114, 114, 111, 114, 58, 42, 42, 32>>

\* "Stream error occurred"
StreamErrorOccurred == <<83, 116, 114, 101, 97, 109, 32, 101, 114, 114, 111, 114, 32, 111, 99, 99, 117, 114, 114, 101, 100>>

\* error instanceof Error ? error.message : "Stream error occurred"
ErrorMessage(error) == IF error.isError THEN error.message ELSE StreamErrorOccurred

\* mutant of Enqueue: the chunk is put in front of the queue
EnqueueInFront(queue, text) == <<Encode(text)>> \o queue

\* controller.enqueue(encoder.encode(text))
Enqueue(queue, text) == Append(queue, Encode(text))

\* POST returned the streaming response of a request for o/r whose fetch
\* took two pages, 100 and 50 PRs
StreamingRequest(e) ==
  LET all    == Items(1, PER_PAGE) \o Items(2, 50)
      result == FetcherResult(e, all, 150)
  IN  /\ endpoint = e
      /\ req = [repository |-> <<"o", "/", "r">>, dateMode |-> "days", days |-> 7,
                startDate |-> NoValue, endDate |-> NoValue,
                identifier |-> IF e = "anon" THEN "fp1" ELSE ""]
      /\ pc = "streaming"
      /\ session = (IF e = "auth" THEN "u1" ELSE "")
      /\ ratelimit = [success |-> TRUE, reset |-> 61]
      /\ accessToken = (IF e = "auth" THEN "tok" ELSE "")
      /\ calls = (IF e = "anon"
                  THEN <<Call("limit", "fp1")>>
                  ELSE <<Call("requireAuth", ""), Call("limit", "u1"),
                         Call("getGitHubToken", "u1")>>)
                 \o <<Call("fetch", ""), Call("fetch", ""), Call("streamText", "")>>
      /\ response = StreamResponse
      /\ prompt = BuildPrompt(e, result)
      /\ page = 3
      /\ hasMore = FALSE
      /\ allPRs = all
      /\ actualTotalCount = (IF e = "auth" THEN 150 ELSE 0)
      /\ elapsed = 4000
      /\ requested = <<1, 2>>
      /\ served = <<[page |-> 1, items |-> PER_PAGE], [page |-> 2, items |-> 50]>>
      /\ firstTotal = 150
      /\ resp = PageResponse("response", 200, NoValue, NoValue, 50, 150)
      /\ fetchResult = result
      /\ fetchError = NoError

InitStream ==
  /\ \E e \in Endpoints : StreamingRequest(e)
  /\ IdleStream
  /\ IdlePure
  /\ IdleComponents

\* the for await loop receives a chunk and enqueues it
ChunkArrives ==
  /\ pc = "streaming"
  /\ Len(produced) < MaxChunks
  /\ \E chunk \in Chunks :
       /\ produced' = Append(produced, chunk)
       /\ enqueued' = Enqueue(enqueued, chunk)
       /\ lateEnqueues' = lateEnqueues + (IF closes > 0 THEN 1 ELSE 0)
  /\ UNCHANGED <<streamFailure, closes, pureVars, componentVars>>
  /\ UNCHANGED <<endpoint, req, pc, session, ratelimit, accessToken, calls, response, prompt,
                 fetchResult, fetchError, fetchVars>>

\* result.textStream ends: controller.close()
StreamEnds ==
  /\ pc = "streaming"
  /\ closes' = closes + 1
  /\ pc' = "closed"
  /\ UNCHANGED <<produced, streamFailure, enqueued, lateEnqueues, pureVars, componentVars>>
  /\ UNCHANGED <<endpoint, req, session, ratelimit, accessToken, calls, response, prompt,
                 fetchResult, fetchError, fetchVars>>

\* result.textStream throws: the catch enqueues the marker and closes
StreamFails ==
  /\ pc = "streaming"
  /\ \E error \in Failures :
       /\ streamFailure' = <<error>>
       /\ enqueued' = Enqueue(enqueued, ErrorMarker \o ErrorMessage(error))
       /\ lateEnqueues' = lateEnqueues + (IF closes > 0 THEN 1 ELSE 0)
  /\ closes' = closes + 1
  /\ pc' = "closed"
  /\ UNCHANGED <<produced, pureVars, componentVars>>
  /\ UNCHANGED <<endpoint, req, session, ratelimit, accessToken, calls, response, prompt,
                 fetchResult, fetchError, fetchVars>>

NextStream ==
  \/ ChunkArrives
  \/ StreamEnds
  \/ StreamFails

SpecStream == InitStream /\ [][NextStream]_vars

\* ---------------------------------------------------------- the client form

\* the most chunks of a response body the form reads
MaxBodyChunks == 2

RECURSIVE Flatten(_)
\* the concatenation of a sequence of strings or byte chunks
Flatten(chunks) == IF chunks = <<>> THEN <<>> ELSE Head(chunks) \o Flatten(Tail(chunks))

RECURSIVE Decode(_)
\* decoder.decode(value): the code points of UTF-8 bytes that hold whole
\* characters
Decode(bytes) ==
  IF bytes = <<>> THEN <<>>
  ELSE IF bytes[1] < 128 THEN <<bytes[1]>> \o Decode(SubSeq(bytes, 2, Len(bytes)))
  ELSE IF bytes[1] < 224
  THEN <<(bytes[1] - 192) * 64 + (bytes[2] - 128)>> \o Decode(SubSeq(bytes, 3, Len(bytes)))
  ELSE <<(bytes[1] - 224) * 4096 + (bytes[2] - 128) * 64 + (bytes[3] - 128)>>
         \o Decode(SubSeq(bytes, 4, Len(bytes)))

\* "Fingerprint not available. Please try again."
FingerprintNotAvailable ==
  <<"F", "i", "n", "g", "e", "r", "p", "r", "i", "n", "t", " ", "n", "o", "t", " ", 
    "a", "v", "a", "i", "l", "a", "b", "l", "e", ".", " ", "P", "l", "e", "a", "s", 
    "e", " ", "t", "r", "y", " ", "a", "g", "a", "i", "n", ".">>

\* the bodies the streaming relay can produce: the chunks, then the marker
\* when the backend failed
RECURSIVE RelayAll(_)
RelayAll(chunks) ==
  IF chunks = <<>> THEN <<>>
  ELSE Enqueue(RelayAll(SubSeq(chunks, 1, Len(chunks) - 1)), chunks[Len(chunks)])

StreamBody(chunks, failure) ==
  IF failure = <<>> THEN RelayAll(chunks)
  ELSE Enqueue(RelayAll(chunks), ErrorMarker \o ErrorMessage(failure[1]))

\* sequences of at most MaxBodyChunks chunks
RECURSIVE ChunkSeqs(_)
ChunkSeqs(n) ==
  IF n = 0 THEN { <<>> }
  ELSE ChunkSeqs(n - 1) \cup { Append(cs, c) : cs \in ChunkSeqs(n - 1), c \in Chunks }

\* "# No Pull Requests Found" as the one chunk of a text body
NoPullRequestsBody == << <<35, 32, 78, 111, 32, 80, 117, 108, 108, 32, 82, 101, 113, 117, 101, 115, 116, 115, 32, 70, 111, 117, 110, 100>> >>

\* what fetch() can resolve with: the answers of the route (400, 401 and the
\* authenticated 429 as JSON, the anonymous 429 and the 500 as text, the
\* text and the stream with status 200) and of a gateway in front of it
Replies(e) ==
  { ClientReply(400, TRUE, <<>>), ClientReply(500, FALSE, <<>>),
    ClientReply(404, TRUE, <<>>), ClientReply(503, FALSE, <<>>),
    ClientReply(200, FALSE, NoPullRequestsBody) }
    \cup (IF e = "auth"
          THEN { ClientReply(401, TRUE, <<>>), ClientReply(429, TRUE, <<>>) }
          ELSE { ClientReply(429, FALSE, <<>>) })
    \cup { ClientReply(200, FALSE, StreamBody(cs, f)) :
             cs \in ChunkSeqs(MaxBodyChunks), f \in {<<>>} \cup { <<x>> : x \in Failures } }

\* response.ok
Ok(r) == r.status >= 200 /\ r.status <= 299

\* a value thrown inside submitForm: whether it is an instance of Error, and
\* the value
Caught(isError, value) == [isError |-> isError, value |-> value]

\* the TypeError of a fetch() or read() that failed
FailedToFetch ==
  Caught(TRUE, Failure(FALSE, Absent, "", "TypeError", Present(<<"f", "a", "i", "l">>)))

\* the SyntaxError of response.json() on a body that is no JSON
NotJson ==
  Caught(TRUE, Failure(FALSE, Absent, "", "SyntaxError", Present(<<"j", "s", "o", "n">>)))

\* throw githubError: the classified error of a response that is not ok, a
\* plain object
ClassifiedReply(r) ==
  Caught(FALSE,
         parseGitHubError(Failure(FALSE,
                                  Present(HttpResponse(r.status, Absent, Absent, Absent, Absent)),
                                  "", "", Absent)))

\* the error the catch of submitForm stores
CaughtError(thrown) ==
  IF thrown.isError
  THEN parseGitHubError(thrown.value)
  ELSE parseGitHubError(Failure(FALSE, Absent, "", "", Present(UnexpectedError)))

\* text.trim() is not empty
HasContent(text) == \E i \in 1..Len(text) : text[i] \notin {9, 10, 13, 32}

\* getErrorConfig(error).canRetry
canRetry(type) == type \notin {"auth", "token_expired"}

\* catch and finally of submitForm
CatchSubmit(thrown) ==
  /\ formError' = <<CaughtError(thrown)>>
  /\ generated' = <<>>
  /\ isGenerating' = FALSE
  /\ formPc' = "done"

\* submitForm is called: up to the 100 ms delay
Submit ==
  /\ formPc \in {"idle", "done"}
  /\ \E isAuthenticated \in BOOLEAN, fp \in {"", "fp1"} :
       /\ apiEndpoint' = (IF isAuthenticated THEN "auth" ELSE "anon")
       /\ fingerprint' = fp
  /\ isGenerating' = TRUE
  /\ formError' = <<>>
  /\ generated' = <<>>
  /\ reply' = NoReply
  /\ unread' = <<>>
  /\ accumulatedText' = <<>>
  /\ formPc' = "delay"
  /\ UNCHANGED <<requestVars, streamVars, pureVars, quotaVars, boundaryVars>>

\* the delay is over: the fingerprint is checked and the request is sent
DelayElapses ==
  /\ formPc = "delay"
  /\ IF fingerprint = ""
     THEN /\ formError' = <<parseGitHubError(Failure(FALSE, Absent, "", "",
                                                     Present(FingerprintNotAvailable)))>>
          /\ isGenerating' = FALSE
          /\ formPc' = "done"
     ELSE /\ formPc' = "awaitFetch"
          /\ UNCHANGED <<formError, isGenerating>>
  /\ UNCHANGED <<fingerprint, apiEndpoint, reply, unread, accumulatedText, generated>>
  /\ UNCHANGED <<requestVars, streamVars, pureVars, quotaVars, boundaryVars>>

\* fetch() rejects
FetchRejects ==
  /\ formPc = "awaitFetch"
  /\ CatchSubmit(FailedToFetch)
  /\ UNCHANGED <<fingerprint, apiEndpoint, reply, unread, accumulatedText>>
  /\ UNCHANGED <<requestVars, streamVars, pureVars, quotaVars, boundaryVars>>

\* fetch() resolves with a response
FetchResolves ==
  /\ formPc = "awaitFetch"
  /\ \E r \in Replies(apiEndpoint) :
       /\ reply' = r
       /\ IF Ok(r)
          THEN /\ unread' = r.body
               /\ formPc' = "reading"
          ELSE /\ unread' = unread
               /\ formPc' = "awaitErrorJson"
  /\ UNCHANGED <<fingerprint, apiEndpoint, accumulatedText, generated, formError, isGenerating>>
  /\ UNCHANGED <<requestVars, streamVars, pureVars, quotaVars, boundaryVars>>

\* response.json() of a response that is not ok settles, the error is thrown
ErrorBodySettles ==
  /\ formPc = "awaitErrorJson"
  /\ CatchSubmit(IF reply.json THEN ClassifiedReply(reply) ELSE NotJson)
  /\ UNCHANGED <<fingerprint, apiEndpoint, reply, unread, accumulatedText>>
  /\ UNCHANGED <<requestVars, streamVars, pureVars, quotaVars, boundaryVars>>

\* reader.read() resolves: with a chunk, or done
ReadResolves ==
  /\ formPc = "reading"
  /\ IF unread = <<>>
     THEN /\ isGenerating' = FALSE
          /\ formPc' = "done"
          /\ UNCHANGED <<unread, accumulatedText, generated>>
     ELSE LET text == accumulatedText \o Decode(Head(unread))
          IN  /\ accumulatedText' = text
              /\ generated' = (IF HasContent(text) THEN text ELSE generated)
              /\ unread' = Tail(unread)
              /\ UNCHANGED <<isGenerating, formPc>>
  /\ UNCHANGED <<fingerprint, apiEndpoint, reply, formError>>
  /\ UNCHANGED <<requestVars, streamVars, pureVars, quotaVars, boundaryVars>>

\* reader.read() rejects: the connection was lost before the whole body was
\* delivered
ReadRejects ==
  /\ formPc = "reading"
  /\ unread # <<>>
  /\ CatchSubmit(FailedToFetch)
  /\ UNCHANGED <<fingerprint, apiEndpoint, reply, unread, accumulatedText>>
  /\ UNCHANGED <<requestVars, streamVars, pureVars, quotaVars, boundaryVars>>

NextForm ==
  \/ Submit
  \/ DelayElapses
  \/ FetchRejects
  \/ FetchResolves
  \/ ErrorBodySettles
  \/ ReadResolves
  \/ ReadRejects

SpecForm == Init /\ [][NextForm]_vars

\* ------------------------------------------------------------ the rate limiter

\* the most limit() calls of one window
MaxLimiterCalls == 6

\* limit of the anonymous route's Ratelimit
ANON_LIMIT == 5

\* limit of the authenticated route's Ratelimit
AUTH_LIMIT == 20

\* namespace of the Ratelimit of route e
Namespace(e) == "generator"

\* limit of the Ratelimit of route e
Limit(e) == IF e = "anon" THEN ANON_LIMIT ELSE AUTH_LIMIT

\* a limit() call of route e with identifier id: the service counts the
\* request under (namespace, identifier) unless the limit is reached
LimitCall(e, id) ==
  LET key     == <<Namespace(e), id>>
      success == quota[key] < Limit(e)
  IN  /\ Len(limited) < MaxLimiterCalls
      /\ quota' = IF success THEN [quota EXCEPT ![key] = @ + 1] ELSE quota
      /\ limited' = Append(limited, [route |-> e, identifier |-> id, success |-> success])
      /\ UNCHANGED <<requestVars, streamVars, pureVars, formVars, boundaryVars>>

\* the anonymous route: unkey.limit(identifier), identifier taken from the body
AnonymousLimit == \E id \in LimiterIdentifiers : LimitCall("anon", id)

\* the authenticated route: unkeyAuth.limit(session.user.id)
AuthenticatedLimit == \E user \in UserIds : LimitCall("auth", user)

\* the 60 s window of the service ends
WindowEnds ==
  /\ limited # <<>>
  /\ quota' = [k \in QuotaKeys |-> 0]
  /\ limited' = <<>>
  /\ UNCHANGED <<requestVars, streamVars, pureVars, formVars, boundaryVars>>

NextQuota ==
  \/ AnonymousLimit
  \/ AuthenticatedLimit
  \/ WindowEnds

SpecQuota == Init /\ [][NextQuota]_vars

\* ---------------------------------------------------------- the error boundary

MAX_RETRY_ATTEMPTS == 3

\* the errors a child can throw
ChildErrors == {"e1", "e2"}

\* the most timers one component instance creates
MaxTimers == 5

\* the timer is left pending
clearNothing(handle, pending) == pending

\* if (this.retryTimer) clearTimeout(this.retryTimer): the timers pending afterwards
clearTimeout(handle, pending) == IF handle # 0 THEN pending \ {handle} ELSE pending

\* getDerivedStateFromError and componentDidCatch
CatchError ==
  /\ mounted
  /\ \E e \in ChildErrors : caughtError' = e
  /\ hasError' = TRUE
  /\ lastOp' = "componentDidCatch"
  /\ UNCHANGED <<mounted, retryCount, retryTimer, pendingResets, lateResets>>
  /\ UNCHANGED <<requestVars, streamVars, pureVars, formVars, quotaVars>>

\* retry()
Retry ==
  /\ mounted
  /\ lastOp' = "retry"
  /\ IF retryCount >= MAX_RETRY_ATTEMPTS
     THEN UNCHANGED <<retryCount, retryTimer, pendingResets>>
     ELSE /\ retryTimer < MaxTimers
          /\ retryCount' = retryCount + 1
          /\ retryTimer' = retryTimer + 1
          /\ pendingResets' = clearTimeout(retryTimer, pendingResets) \cup {retryTimer + 1}
  /\ UNCHANGED <<mounted, hasError, caughtError, lateResets>>
  /\ UNCHANGED <<requestVars, streamVars, pureVars, formVars, quotaVars>>

\* resetError()
ResetError ==
  /\ mounted
  /\ hasError' = FALSE
  /\ caughtError' = ""
  /\ retryCount' = 0
  /\ lastOp' = "resetError"
  /\ UNCHANGED <<mounted, retryTimer, pendingResets, lateResets>>
  /\ UNCHANGED <<requestVars, streamVars, pureVars, formVars, quotaVars>>

\* the timer of retry() fires: resetErrorState()
RetryTimerFires ==
  /\ \E handle \in pendingResets : pendingResets' = pendingResets \ {handle}
  /\ lastOp' = "resetErrorState"
  /\ IF mounted
     THEN /\ hasError' = FALSE
          /\ caughtError' = ""
          /\ UNCHANGED lateResets
     ELSE /\ lateResets' = lateResets + 1
          /\ UNCHANGED <<hasError, caughtError>>
  /\ UNCHANGED <<mounted, retryCount, retryTimer>>
  /\ UNCHANGED <<requestVars, streamVars, pureVars, formVars, quotaVars>>

\* componentWillUnmount()
Unmount ==
  /\ mounted
  /\ mounted' = FALSE
  /\ pendingResets' = clearTimeout(retryTimer, pendingResets)
  /\ lastOp' = "componentWillUnmount"
  /\ UNCHANGED <<hasError, caughtError, retryCount, retryTimer, lateResets>>
  /\ UNCHANGED <<requestVars, streamVars, pureVars, formVars, quotaVars>>

NextBoundary ==
  \/ CatchError
  \/ Retry
  \/ ResetError
  \/ RetryTimerFires
  \/ Unmount

SpecBoundary == Init /\ [][NextBoundary]_vars

\* ------------------------------------------------------------------ claims

\* the fetcher returned (fetchResult is its result)
Returned == fetchResult # NoResult

\* the fetcher threw (fetchError is what it threw)
Threw == fetchError # NoError

\* every page GitHub served so far was a full page
AllFull == \A i \in 1..Len(served) : served[i].items = PER_PAGE

\* the items of the served pages, concatenated in the order served
RECURSIVE ServedItems(_)
ServedItems(pages) ==
  IF pages = <<>> THEN <<>>
  ELSE ServedItems(SubSeq(pages, 1, Len(pages) - 1))
         \o Items(pages[Len(pages)].page, pages[Len(pages)].items)

\* C1: either fetcher issues at most 10 page requests and returns at most 1000
\* PRs; when GitHub serves 10 full pages and reports more than 1000 matches,
\* the fetch stops after page 10 and returns 1000 PRs, 1000 <= totalCount.
C1_PageCap ==
  /\ Len(requested) <= MAX_PAGES
  /\ Len(allPRs) <= MAX_PAGES * PER_PAGE
  /\ Returned => Len(fetchResult.prs) <= MAX_PAGES * PER_PAGE
  /\ (Len(served) = MAX_PAGES /\ AllFull /\ firstTotal > MAX_PAGES * PER_PAGE)
       => /\ Returned
          /\ ~Threw
          /\ Len(requested) = MAX_PAGES
          /\ Len(fetchResult.prs) = MAX_PAGES * PER_PAGE
          /\ fetchResult.fetchedCount \in {NoValue, MAX_PAGES * PER_PAGE}
          /\ MAX_PAGES * PER_PAGE <= fetchResult.totalCount

\* C1 witness: ten full pages were served with a reported total of 1500 and
\* the fetcher returned
C1_Witness ==
  /\ Len(served) = MAX_PAGES
  /\ AllFull
  /\ firstTotal = MaxTotalCount
  /\ Returned
  /\ endpoint = "auth"
  /\ fetchResult.totalCount = MaxTotalCount

\* C2: pages are requested in the order 1, 2, 3, ...; page N+1 is requested
\* only when page N has been served and applied; the PRs are the items of the
\* served pages in page order; page 1 = 100 items with total_count 150 and
\* page 2 = 50 items give 150 PRs and totalCount 150.
C2_PageOrder ==
  /\ \A i \in 1..Len(requested) : requested[i] = i
  /\ \A i \in 1..Len(served) : served[i].page = i
  /\ Len(served) <= Len(requested)
  /\ Len(requested) <= Len(served) + 1
  /\ allPRs = ServedItems(served)
  /\ Returned => fetchResult.prs = ServedItems(served)
  /\ (/\ served = <<[page |-> 1, items |-> PER_PAGE], [page |-> 2, items |-> 50]>>
      /\ firstTotal = 150)
       => /\ Returned
          /\ Len(fetchResult.prs) = 150
          /\ fetchResult.fetchedCount \in {NoValue, 150}
          /\ fetchResult.totalCount = 150

\* C2 witness: the two-page example has been fetched
C2_Witness ==
  /\ served = <<[page |-> 1, items |-> PER_PAGE], [page |-> 2, items |-> 50]>>
  /\ firstTotal = 150
  /\ Returned
  /\ fetchResult.prs = [i \in 1..150 |-> i]

\* C3: in every successful result totalCount is the total_count that the
\* page-1 response reported.
C3_FirstPageTotal ==
  (Returned /\ firstTotal # NoValue) => fetchResult.totalCount = firstTotal

\* C4: when more than 30 seconds have elapsed at the head of the paging loop
\* and the loop would go on, no page is requested and the fetcher returns the
\* PRs of the pages fetched so far, without an error.
C4_BudgetStops ==
  [][(pc = "awaitJson" /\ hasMore' /\ page' <= MAX_PAGES /\ elapsed' > TIMEOUT_MS)
       => /\ requested' = requested
          /\ pc' # "awaitFetch"
          /\ fetchResult' # NoResult
          /\ fetchResult'.prs = ServedItems(served')
          /\ fetchError' = NoError
          /\ response'.status = 200]_vars

\* C4 witness: the fetcher returned PRs with the budget exceeded while the
\* loop condition still held
C4_Witness ==
  /\ Returned
  /\ hasMore
  /\ page <= MAX_PAGES
  /\ elapsed > TIMEOUT_MS
  /\ Len(fetchResult.prs) = 2 * PER_PAGE
  /\ ~Threw

\* the error of the per-request timeout
RequestTimeoutError ==
  Err("Error", "Request timeout while fetching PRs from GitHub", NoValue, NoValue)

\* C5: when the abort timer of a page request (first or later) fires, the
\* fetch ends with the request-timeout error, which is none of the errors
\* thrown for a status nor the wrapped unknown error nor the rethrown
\* transport error, and no PRs are returned.
C5_RequestTimeout ==
  resp.outcome = "aborted"
    => /\ fetchError = RequestTimeoutError
       /\ \A e \in Endpoints, status \in Statuses, reset \in ResetHeaders :
            fetchError.message # StatusError(e, status, reset).message
       /\ fetchError.message \notin {"Failed to fetch PRs", "fetch failed", "This operation was aborted"}
       /\ ~Returned
       /\ pc = "done"
       /\ response.type # "stream"

\* C5 witness: a later page request was aborted after PRs had been accumulated
C5_Witness ==
  /\ resp.outcome = "aborted"
  /\ Len(allPRs) = 3 * PER_PAGE
  /\ Threw

\* a page request was answered with a status that is not ok
NotOk == resp.outcome = "response" /\ resp.status # 200

\* C6: a page response that is not ok makes the fetcher fail at once: no
\* further page is requested and no PRs are returned, also after earlier
\* pages; 404 and 422 give two different failures.
C6_StatusFails ==
  /\ NotOk
       => /\ Threw
          /\ ~Returned
          /\ pc = "done"
          /\ Len(requested) = Len(served) + 1
          /\ response.type # "stream"
  /\ (NotOk /\ resp.status = 404) => fetchError.message = "Repository not found"
  /\ (NotOk /\ resp.status = 422) => fetchError.message = "Invalid query parameters"

\* C6 witness: page 3 was answered 422 after two full pages
C6_Witness ==
  /\ NotOk
  /\ resp.status = 422
  /\ Len(allPRs) = 2 * PER_PAGE
  /\ Threw

\* C7: a 403 page response is a rate-limit failure only when its
\* rate-limit-remaining header is 0, and a forbidden failure otherwise.
C7_ForbiddenNotRateLimit ==
  (NotOk /\ resp.status = 403 /\ resp.remaining # 0)
    => fetchError.message # "GitHub API rate limit exceeded"

\* a collaborator was called
Called(fn) == \E i \in 1..Len(calls) : calls[i].fn = fn

\* GitHub answered page 1 with no items and total_count 0
ZeroMatches ==
  /\ served = <<[page |-> 1, items |-> 0]>>
  /\ firstTotal = 0

\* C8: when GitHub reports zero merged PRs the fetch succeeds with no PRs and
\* totalCount 0, and the endpoint answers 200 with the fixed "# No Pull
\* Requests Found" text and does not call the generation backend.
C8_ZeroMatches ==
  ZeroMatches
    => /\ Returned
       /\ ~Threw
       /\ fetchResult.prs = <<>>
       /\ fetchResult.totalCount = 0
       /\ pc = "done"
       /\ response = NoPullRequestsResponse
       /\ response.status = 200
       /\ ~Called("streamText")
       /\ prompt = NoPrompt

\* C8 witness: the authenticated endpoint answered the zero case
C8_Witness ==
  /\ ZeroMatches
  /\ endpoint = "auth"
  /\ response.body = "# No Pull Requests Found"

\* C9: when the fetch fails on an upstream 404 or 422 the endpoint answers
\* with that status, and with a 5xx on an upstream server error, as a JSON
\* error object.
C9_FetchFailureStatus ==
  /\ (NotOk /\ resp.status \in {404, 422})
       => (response.status = resp.status /\ response.type = "json")
  /\ (NotOk /\ resp.status \in {500, 503})
       => (response.status >= 500 /\ response.type = "json")

\* the limiter refused the request
LimiterRefused == ratelimit.reset # NoValue /\ ~ratelimit.success

\* GitHub refused a page request for its rate limit
GitHubRateLimited == NotOk /\ resp.status = 403 /\ resp.remaining = 0

\* C10: a request rejected for rate limiting, by the service's limiter or by
\* GitHub, is answered 429 with a JSON error that carries the reset time.
C10_RateLimited429 ==
  (LimiterRefused \/ GitHubRateLimited)
    => /\ response.status = 429
       /\ response.type = "json"
       /\ response.resetTime # NoValue

\* the rules of an owner/repo string, one by one
TwoSegments(s) == Len(SelectSeq(s, LAMBDA c : c = "/")) = 1

OwnerOf(s) == SubSeq(s, 1, FirstSlash(s) - 1)

RepoOf(s) == SubSeq(s, FirstSlash(s) + 1, Len(s))

NameRules(name) ==
  /\ name # <<>>
  /\ name # <<".">>
  /\ name # <<".", ".">>
  /\ \A i \in 1..Len(name) : name[i] \in Letters \cup Digits \cup {".", "_", "-"}
  /\ Len(name) <= 100

RepoRules(s) ==
  /\ TwoSegments(s)
  /\ NameRules(OwnerOf(s))
  /\ NameRules(RepoOf(s))
  /\ ~(Len(RepoOf(s)) >= 4 /\ SubSeq(RepoOf(s), Len(RepoOf(s)) - 3, Len(RepoOf(s))) = <<".", "g", "i", "t">>)

\* C13: isValidGitHubRepo accepts a string exactly when it has two non-empty
\* segments, neither "." nor "..", the second not ending in ".git", both of
\* characters [A-Za-z0-9._-] and at most 100 long; extractOwnerAndRepo returns
\* the two segments for accepted strings and null for all others.
C13_Validator ==
  applied = "extractOwnerAndRepo"
    => /\ output.valid = RepoRules(input.a)
       /\ output.valid
            => output.extracted = OwnerAndRepo(FALSE, OwnerOf(input.a), RepoOf(input.a))
       /\ ~output.valid => output.extracted.isNull

\* C13 witness: a name of exactly 100 characters was accepted and extracted
C13_Witness ==
  /\ applied = "extractOwnerAndRepo"
  /\ Len(input.a) = MAX_NAME_LENGTH + 2
  /\ output.valid
  /\ Len(output.extracted.repo) = MAX_NAME_LENGTH

\* C13 witness of a rejection: a repository name ending in ".git"
C13_RejectsGit ==
  /\ applied = "extractOwnerAndRepo"
  /\ input.a = <<"g", "/", "t", ".", "g", "i", "t">>
  /\ output.extracted.isNull

\* a date string that is present and parses
Parseable(d) == d # NoValue /\ d # InvalidDate

\* C14: in days mode with a positive day count N the range is [now - N, now];
\* in range mode with two parseable dates s <= e it is [s, e], and s > e fails
\* with the invalid-range error; an unknown mode, missing days and a missing
\* start or end fail with the invalid-configuration error.
C14_DateRange ==
  applied = "calculateDateRange"
    => LET a == input.a
       IN  /\ (a.dateMode = "days" /\ a.days > 0)
                => output = [ok |-> TRUE, start |-> Today - a.days, end |-> Today]
           /\ (a.dateMode = "range" /\ Parseable(a.startDate) /\ Parseable(a.endDate)
                 /\ a.startDate <= a.endDate)
                => output = [ok |-> TRUE, start |-> a.startDate, end |-> a.endDate]
           /\ (a.dateMode = "range" /\ Parseable(a.startDate) /\ Parseable(a.endDate)
                 /\ a.startDate > a.endDate)
                => (~output.ok /\ output.error.message = "Start date must be before end date")
           /\ (\/ a.dateMode \notin {"days", "range"}
               \/ (a.dateMode = "days" /\ a.days = NoValue)
               \/ (a.dateMode = "range" /\ (a.startDate = NoValue \/ a.endDate = NoValue)))
                => (~output.ok /\ output.error.message = "Invalid date configuration")

\* C14 witness: range mode returned a range of two equal dates
C14_Witness ==
  /\ applied = "calculateDateRange"
  /\ input.a.dateMode = "range"
  /\ input.a.startDate = 20
  /\ input.a.endDate = 20
  /\ output.ok
  /\ output.start = output.end

\* C15: every range calculateDateRange returns has start <= end.
C15_StartBeforeEnd ==
  (applied = "calculateDateRange" /\ output.ok)
    => /\ output.start # InvalidDate
       /\ output.end # InvalidDate
       /\ output.start <= output.end

\* C11: a request whose repository violates the owner/repo rules, or whose
\* date configuration is invalid, is answered with status 400, and no
\* collaborator (rate limiter, session or token store, GitHub, generation
\* backend) is called before that answer.
C11_ValidationFirst ==
  (/\ pc # "idle"
   /\ \/ ~isValidGitHubRepo(req.repository)
      \/ ~calculateDateRange(req.dateMode, req.days, req.startDate, req.endDate).ok)
    => /\ calls = <<>>
       /\ pc = "done" => response.status = 400

\* C12: in the authenticated endpoint a request without a session is answered
\* with a 401 JSON error and nothing after requireAuth is called; a request
\* whose GitHub token is absent or expired is answered with a 401 JSON error
\* and neither GitHub nor the generation backend is called.
C12_AuthFirst ==
  /\ (endpoint = "auth" /\ Called("requireAuth") /\ pc # "requireAuth" /\ session = "")
       => /\ pc = "done"
          /\ response = JsonError(401, "Authentication required")
          /\ calls = <<Call("requireAuth", "")>>
  /\ (endpoint = "auth" /\ Called("getGitHubToken") /\ pc # "getGitHubToken"
        /\ accessToken = "")
       => /\ pc = "done"
          /\ response = JsonError(401, "GitHub access token not found or expired")
          /\ ~Called("fetch")
          /\ ~Called("streamText")

\* C12 witness: the token store had no token and the request was answered 401
C12_Witness ==
  /\ endpoint = "auth"
  /\ session # ""
  /\ ratelimit.success
  /\ Called("getGitHubToken")
  /\ accessToken = ""
  /\ pc = "done"
  /\ response.status = 401

\* the request had no session and was answered 401
C12_NoSession ==
  /\ endpoint = "auth"
  /\ Called("requireAuth")
  /\ session = ""
  /\ pc = "done"
  /\ response.status = 401

\* C16: the summary body of a PR is "No description provided" exactly when the
\* PR body is null, and otherwise the first 500 characters of the body (the
\* whole body, the empty string included, when it is shorter).
C16_SummaryBody ==
  applied = "summaryBody"
    => /\ input.a.isNull => output = NoDescription
       /\ ~input.a.isNull
            => output = SubSeq(input.a.text, 1,
                               IF Len(input.a.text) < BODY_LIMIT
                               THEN Len(input.a.text) ELSE BODY_LIMIT)

\* a body of 600 characters was cut to its first 500
C16_Truncated ==
  /\ applied = "summaryBody"
  /\ Len(input.a.text) = BODY_LIMIT + 100
  /\ Len(output) = BODY_LIMIT
  /\ output = SubSeq(input.a.text, 1, BODY_LIMIT)

\* C17: when more than 200 PRs were fetched, the prompt embeds exactly the
\* first 200 summaries in fetch order and its truncation note states
\* fetchedCount - 200 omitted PRs, in both endpoints, also when the upstream
\* total exceeds the number fetched.
C17_TruncationNote ==
  (pc = "streaming" /\ Len(fetchResult.prs) > MAX_PROMPT_PRS)
    => /\ prompt.data = SubSeq(fetchResult.prs, 1, MAX_PROMPT_PRS)
       /\ prompt.omitted = Len(fetchResult.prs) - MAX_PROMPT_PRS

\* C18: when at most 200 PRs were fetched, also when the budget cut the fetch
\* short of a larger upstream total, the prompt embeds all fetched summaries,
\* has no truncation note, and every count it states is fetchedCount.
C18_NoTruncation ==
  (pc = "streaming" /\ Len(fetchResult.prs) <= MAX_PROMPT_PRS)
    => /\ prompt.data = fetchResult.prs
       /\ prompt.omitted = NoValue
       /\ prompt.totalPRs = Len(fetchResult.prs)
       /\ prompt.provided \in {NoValue, Len(fetchResult.prs)}

\* the chunks produced so far, each encoded
Relayed == [i \in 1..Len(produced) |-> Encode(produced[i])]

\* C19: the response body holds exactly the chunks the backend produced, in
\* production order; after a backend failure they are followed by exactly one
\* chunk "\n\n---\n\n**Error:** <message>"; the stream is closed exactly once
\* and nothing is enqueued after the close.
C19_Relay ==
  /\ lateEnqueues = 0
  /\ pc = "streaming" => (closes = 0 /\ enqueued = Relayed)
  /\ (pc = "closed" /\ streamFailure = <<>>)
       => /\ closes = 1
          /\ enqueued = Relayed
          /\ Decode(Flatten(enqueued)) = Flatten(produced)
  /\ (pc = "closed" /\ streamFailure # <<>>)
       => /\ closes = 1
          /\ Len(enqueued) = Len(produced) + 1
          /\ SubSeq(enqueued, 1, Len(produced)) = Relayed
          /\ Decode(Flatten(enqueued))
               = Flatten(produced) \o ErrorMarker \o ErrorMessage(streamFailure[1])

\* C19 witness: the backend failed with a value that is no Error after three
\* chunks, one of them not ASCII
C19_Witness ==
  /\ pc = "closed"
  /\ Len(produced) = MaxChunks
  /\ produced[1] # produced[2]
  /\ produced[2] = <<233, 8364>>
  /\ streamFailure = <<Thrown(FALSE, <<>>)>>
  /\ Len(enqueued) = MaxChunks + 1
  /\ closes = 1

\* the backend ended after three chunks and the stream was closed
C19_Completed ==
  /\ pc = "closed"
  /\ streamFailure = <<>>
  /\ produced = << <<72, 105>>, <<233, 8364>>, <<>> >>
  /\ enqueued = << <<72, 105>>, <<195, 169, 226, 130, 172>>, <<>> >>
  /\ closes = 1

\* the kind the status table gives an error that carries a response, "" when
\* no row of the table applies
KindByStatus(error) ==
  IF error.isNull \/ error.response = Absent THEN ""
  ELSE LET r == error.response[1]
       IN  IF r.status = 401 THEN "auth"
           ELSE IF r.status = 403 /\ r.remaining = Present(<<"0">>) THEN "rate_limit"
           ELSE IF r.status = 403 THEN "forbidden"
           ELSE IF r.status = 404 THEN "not_found"
           ELSE IF r.status = 422 /\ r.message = Present(<<"T", "o", "k", "e", "n", " ", "E", "x", "p", "i", "r", "e", "d">>)
           THEN "token_expired"
           ELSE IF r.status \in {500, 502, 503, 504} THEN "server"
           ELSE ""

\* the limit a rate_limit error reports for each limit header of the inputs
ExpectedLimit(limit) ==
  IF limit = Present(<<"5", "0", "0", "0">>) THEN 5000
  ELSE IF limit = Present(<<"1", "2", "x">>) THEN 12
  ELSE 60

\* the transport failures: code NETWORK_ERROR or name NetworkError
TransportFailure(error) ==
  ~error.isNull /\ (error.code = "NETWORK_ERROR" \/ error.name = "NetworkError")

C20_Network ==
  /\ applied = "parseGitHubError"
  /\ input.a.response # Absent
  /\ input.a.response[1].status = 422
  /\ input.a.code = "NETWORK_ERROR"
  /\ output.type = "network"

\* a failure detected locally, without a response: an aborted request
\* (AbortError), a failed fetch() (TypeError), or one tagged as a network error
LocallyDetected(error) ==
  /\ ~error.isNull
  /\ error.response = Absent
  /\ \/ error.name \in {"AbortError", "TypeError", "NetworkError"}
     \/ error.code = "NETWORK_ERROR"

\* C21: a transport-level abort or timeout (an AbortError, a failed network
\* call) is classified by parseGitHubError as network, never as unknown or
\* server.
C21_TransportIsNetwork ==
  (applied = "parseGitHubError" /\ LocallyDetected(input.a)) => output.type = "network"

\* the last chunk of the body the form received is the trailing error marker
EndsWithMarker(body) ==
  /\ body # <<>>
  /\ Len(body[Len(body)]) >= Len(Encode(ErrorMarker))
  /\ SubSeq(body[Len(body)], 1, Len(Encode(ErrorMarker))) = Encode(ErrorMarker)

\* C22: when the endpoint answers a submission with a non-2xx status, the
\* error the form stores has the classifier's kind for that status: 401 gives
\* auth, which offers no retry; 404 gives not_found; 5xx gives server.
C22_FormKeepsKind ==
  (formPc = "done" /\ reply # NoReply /\ ~Ok(reply))
    => /\ formError # <<>>
       /\ reply.status = 401 => (formError[1].type = "auth" /\ ~canRetry(formError[1].type))
       /\ reply.status = 404 => formError[1].type = "not_found"
       /\ reply.status \in {500, 503} => formError[1].type = "server"

\* C23: when the streamed body ends with the trailing error marker the form
\* records an error and does not present the accumulated text; a body
\* without the marker that was read to its end is presented without error.
C23_MarkerFails ==
  (formPc = "done" /\ Ok(reply) /\ unread = <<>>)
    => IF EndsWithMarker(reply.body)
       THEN formError # <<>> /\ generated = <<>>
       ELSE formError = <<>>

\* C24: against the same search both fetchers request the same pages and
\* return the same prs and totalCount; what they throw differs only for a
\* 401 response.
C24_FetchersAgree ==
  applied = "fetchGitHubPRs"
    => /\ output.anon.requested = output.auth.requested
       /\ output.anon.result.prs = output.auth.result.prs
       /\ output.anon.result.totalCount = output.auth.result.totalCount
       /\ (input.a.failAt = 0 \/ input.a.status # 401)
            => output.anon.threw = output.auth.threw

\* C25: in both endpoints a fetched PR without an author does not fail the
\* request: its summary has a fixed placeholder as author and every other PR
\* is summarized with its author's login.
C25_AuthorPlaceholder ==
  applied = "prSummaries"
    => /\ output.threw = NoError
       /\ output.response.status = 200
       /\ Len(output.authors) = Len(input.a.prs)
       /\ \A i \in 1..Len(input.a.prs) :
            IF input.a.prs[i].user = Absent
            THEN output.authors[i] = "unknown"
            ELSE output.authors[i] = input.a.prs[i].user[1]

\* C26: the endpoint answers with the "No Pull Requests Found" text if and
\* only if the fetch returned no PRs, and streamText is called only with a
\* prompt that embeds at least one summary, whatever total_count page 1
\* reported.
C26_EmptyIffNoPRs ==
  (pc \in {"done", "streaming"} /\ Returned)
    => /\ response = NoPullRequestsResponse <=> fetchResult.prs = <<>>
       /\ Called("streamText") => prompt.data # <<>>

\* C27: every call of a fetcher eventually returns or throws, whatever GitHub
\* does: a page request, while its response is awaited and while its body is
\* read, is ended by the 10-second abort timer.
C27_FetcherTerminates ==
  (pc \in {"awaitFetch", "awaitJson"}) ~> (Returned \/ Threw)

\* a page request whose response is awaited is ended, by the response or by
\* the abort timer
C27_ResponseBounded ==
  (pc = "awaitFetch") ~> (pc # "awaitFetch")

\* C28: fetchAllUserRepositories returns a duplicate-free prefix of the
\* user's listing: the i-th returned repository is the i-th of the listing,
\* there are at most maxRepos of them, and at most 10 page requests are made;
\* a user with 120 repositories and maxRepos = 100 gets the first 100.
C28_RepositoryPrefix ==
  applied = "fetchAllUserRepositories"
    => /\ \A i \in 1..Len(output.repositories) : output.repositories[i] = i
       /\ Len(output.repositories) <= input.a.maxRepos
       /\ Len(output.requests) <= REPOS_MAX_PAGES
       /\ (input.a.count = 120 /\ input.a.maxRepos = 100 /\ input.a.wait = 1000)
            => Len(output.repositories) = 100

\* the successful limit() calls of the window made by route e for identifier id
RECURSIVE Counted(_, _, _)
Counted(calls0, e, id) ==
  IF calls0 = <<>> THEN 0
  ELSE Counted(Tail(calls0), e, id)
         + (IF Head(calls0).route = e /\ Head(calls0).identifier = id /\ Head(calls0).success
            THEN 1 ELSE 0)

\* C29: the quota counted for an authenticated user's id is consumed only by
\* that user's authenticated requests, whatever identifiers anonymous
\* requests carry, and the quota of a fingerprint only by anonymous requests.
C29_SeparateQuotas ==
  \A user \in UserIds :
    quota[<<Namespace("auth"), user>>] = Counted(limited, "auth", user)

\* C30: retryCount stays within 0..3, at most one delayed reset is pending
\* and none fires after unmount; retry() does nothing once retryCount is 3,
\* the delayed reset clears the error state and keeps retryCount, and only
\* resetError() sets retryCount back to 0.
C30_RetryBounded ==
  /\ [](/\ retryCount \in 0..MAX_RETRY_ATTEMPTS
        /\ Cardinality(pendingResets) <= 1
        /\ lateResets = 0)
  /\ [][/\ (lastOp' = "retry" /\ retryCount = MAX_RETRY_ATTEMPTS)
             => UNCHANGED <<hasError, caughtError, retryCount, retryTimer, pendingResets>>
        /\ lastOp' = "resetErrorState"
             => (retryCount' = retryCount /\ ~hasError' /\ caughtError' = "")
        /\ retryCount' < retryCount => (retryCount' = 0 /\ lastOp' = "resetError")]_vars

\* C30 witness: after three retries whose last reset is still pending, a
\* further error was caught and retry() was called again
C30_Witness ==
  /\ retryCount = MAX_RETRY_ATTEMPTS
  /\ pendingResets # {}
  /\ hasError
  /\ lastOp = "retry"
  /\ mounted

====
